---------------------------- MODULE Spec2Model ----------------------------
(* The lesson pages of the function-calling course app as one state      *)
(* machine: a page (baseline chat, Lesson 01-03 tool calling, Lesson     *)
(* 05/06 streaming) with its React state (messages, isLoading, the       *)
(* useTrace ledger), the position of its async handleSend, and the model *)
(* service and the tool back ends as the environment.                    *)
(*                                                                       *)
(* Texts are strings. The timestamp field of a trace step (Date.now())   *)
(* is left out: no operation of the program reads it.                    *)
EXTENDS Integers, Sequences, FiniteSets, TLC

\* ------------------------------------------------------------- bounds
\* Longest text the service streams or snapshots, in characters.
MaxText == 2
\* Most items in the output list of one response.
MaxOutput == 2
\* Most function calls the service requests in one Lesson 03 turn.
MaxCalls == 2
\* Most events the service puts on one stream.
MaxEvents == 3
\* The user sends only into a conversation with fewer messages than this.
MaxMessages == 1
\* pushTrace calls one event handler issues before React renders again
MaxBatch == 3

\* ---------------------------------------------------------- the pages
Lessons == {"baseline", "lesson01", "lesson02", "lesson03", "lesson05", "lesson06"}
SingleRound == {"lesson01", "lesson02"}
ToolLessons == {"lesson01", "lesson02", "lesson03"}
TurnLessons == Lessons
Streaming == {"lesson05", "lesson06"}

\* -------------------------------------------------------------- texts
Chars == {"a"}

RECURSIVE Strs(_)
Strs(n) == IF n = 0 THEN {""}
           ELSE Strs(n - 1) \cup {s \o c : s \in Strs(n - 1), c \in Chars}

\* Final texts and fragments the service may stream.
Texts == Strs(MaxText)
Fragments == {"a", "b"}
\* What the user types (ChatInput sends input.trim(), never empty).
UserInputs == {"hi"}
\* What the textarea may hold when the user presses Enter or the button.
ChatInputs == {"hi", " hi ", " "}
\* input.trim()
Trim(input) == CASE input = " hi " -> "hi" [] input = " " -> "" [] OTHER -> input
\* The text of a message item in a single-shot response.
ItemText == "a"

\* JS undefined where a string is expected (JSON.stringify(undefined)).
Undefined == "undefined"

\* ------------------------------------------------------------- errors
\* A thrown value: an Error instance with its message, or anything else.
ServiceError == [isError |-> TRUE, message |-> "Connection error."]
SyntaxError == [isError |-> TRUE, message |-> "Unexpected token b in JSON"]
FetchError == [isError |-> TRUE, message |-> "Failed to fetch"]
NoError == [isError |-> FALSE, message |-> ""]

\* `Error: ${error instanceof Error ? error.message : 'Unknown error'}`
ErrorContent(e) == "Error: " \o (IF e.isError THEN e.message ELSE "Unknown error")

\* ----------------------------------------------------------- messages
\* A Message: role, content, rawResponse (<<>> when absent, else <<response>>)
\* and whether a functionCall trace is attached.
Msg(role, content, raw, fc) ==
    [role |-> role, content |-> content, rawResponse |-> raw, functionCall |-> fc]
UserMessage(input) == Msg("user", input, <<>>, FALSE)
ErrorMessage(e) == Msg("assistant", ErrorContent(e), <<>>, FALSE)
\* Variant: the content is the output text verbatim, without the fallback.
AssistantMessage_Verbatim(resp, fc) == Msg("assistant", resp.output_text, <<resp>>, fc)

\* content: response.output_text || 'No response'
AssistantMessage(resp, fc) ==
    Msg("assistant", IF resp.output_text = "" THEN "No response" ELSE resp.output_text,
        <<resp>>, fc)

\* ------------------------------------------------------ protocol items
Item(type, role, content, call_id, name, arguments, output) ==
    [type |-> type, role |-> role, content |-> content, call_id |-> call_id,
     name |-> name, arguments |-> arguments, output |-> output]
\* { role: msg.role, content: msg.content }
InputMessage(m) == Item("message", m.role, m.content, "", "", "", "")
OutputMessage(text) == Item("message", "assistant", text, "", "", "", "")
FunctionCall(id, name, args) == Item("function_call", "", "", id, name, args, "")
FunctionCallOutput(id, out) == Item("function_call_output", "", "", id, "", "", out)

\* newMessages.map((msg) => ({ role, content }))
ToInput(msgs) == [i \in 1..Len(msgs) |-> InputMessage(msgs[i])]

\* response.output.filter((item) => item.type === 'function_call')
FilterCalls(output) == SelectSeq(output, LAMBDA it : it.type = "function_call")

RECURSIVE ConcatTexts(_)
ConcatTexts(items) ==
    IF items = <<>> THEN ""
    ELSE (IF Head(items).type = "message" THEN Head(items).content ELSE "")
         \o ConcatTexts(Tail(items))

\* response.output_text: the SDK's aggregate of the output's message texts.
OutputText(output) == ConcatTexts(output)

\* ------------------------------------------------------- trace ledger
NoResult == [undefined |-> TRUE, error |-> FALSE, fields |-> ""]
Data(kind, count, result) == [kind |-> kind, count |-> count, result |-> result]
NoData == Data("undefined", 0, NoResult)
Step(id, label, status, data) ==
    [id |-> id, label |-> label, status |-> status, data |-> data]

\* Variant: findIndex never finds the id.
FindIndex_Never(prev, id) == 0

\* prev.findIndex((s) => s.id === step.id), 0 when absent (JS: -1)
FindIndex(prev, id) ==
    IF \E i \in 1..Len(prev) : prev[i].id = id
    THEN CHOOSE i \in 1..Len(prev) :
            /\ prev[i].id = id
            /\ \A j \in 1..(i - 1) : prev[j].id # id
    ELSE 0

\* Variant: append, not upsert.
PushTrace_Append(prev, step) == Append(prev, step)

\* Variant: an existing entry is removed and the step appended at the end.
PushTrace_MoveToEnd(prev, step) ==
    Append(SelectSeq(prev, LAMBDA st : st.id # step.id), step)

\* Variant: a ledger of two entries at most, a new id pushes the oldest out.
PushTrace_Capped(prev, step) ==
    LET idx == FindIndex(prev, step.id)
    IN  IF idx > 0 THEN [prev EXCEPT ![idx] = step]
        ELSE IF Len(prev) >= 2 THEN Append(Tail(prev), step)
        ELSE Append(prev, step)

\* useTrace.pushTrace: upsert by id
PushTrace(prev, step) ==
    LET idx == FindIndex(prev, step.id)
    IN  IF idx > 0 THEN [prev EXCEPT ![idx] = step] ELSE Append(prev, step)

\* Variant: clearTrace leaves the ledger as it is.
ClearTrace_Keeps(prev) == prev

\* useTrace.clearTrace: setTraceSteps([])
ClearTrace(prev) == <<>>

\* Variant: every updater of a batch is applied to the ledger of the last
\* render, and the last one's result is the state (setTraceSteps(value)).
ApplyUpdaters_Stale(prev, steps) ==
    IF steps = <<>> THEN prev ELSE PushTrace(prev, steps[Len(steps)])

\* setTraceSteps((prev) => ...) called once per step before the next render:
\* React runs the queued updaters in call order, each on the result of the one
\* before it.
RECURSIVE ApplyUpdaters(_, _)
ApplyUpdaters(prev, steps) ==
    IF steps = <<>> THEN prev
    ELSE ApplyUpdaters(PushTrace(prev, Head(steps)), Tail(steps))

\* useTrace.trace: the in-progress write
TraceBegin(prev, id, label, data) == PushTrace(prev, Step(id, label, "in-progress", data))
\* Variant: the callback leaves the status in-progress.
TraceDone_StillInProgress(prev, id, label, data) ==
    PushTrace(prev, Step(id, label, "in-progress", data))

\* Variant: the callback merges, a completion without a payload keeps the
\* payload the step had.
TraceDone_Merges(prev, id, label, data) ==
    LET idx == FindIndex(prev, id)
    IN  PushTrace(prev, Step(id, label, "completed",
                             IF data = NoData /\ idx > 0 THEN prev[idx].data ELSE data))

\* the callback trace returns: completedLabel ?? label, completedData
TraceDone(prev, id, label, data) == PushTrace(prev, Step(id, label, "completed", data))


\* ---------------------------------------------------------------- tools
\* JSON texts the service puts in a function call's arguments.
ArgTip == "{\"bill_amount\":50}"
ArgLocation == "{\"location\":\"Paris\"}"
ArgLatLon == "{\"latitude\":48,\"longitude\":2}"
ArgEmpty == "{}"
ArgBad == "{bad"

\* JSON.parse(toolCall.arguments): the parsed object, or ok = FALSE where
\* JSON.parse throws a SyntaxError. A missing property reads as undefined.
JSONParse(s) ==
    CASE s = ArgTip    -> [ok |-> TRUE, bill_amount |-> 50, has_tip_percentage |-> FALSE, tip_percentage |-> 0]
      [] s \in {ArgLocation, ArgLatLon, ArgEmpty}
                       -> [ok |-> TRUE, bill_amount |-> 0, has_tip_percentage |-> FALSE, tip_percentage |-> 0]
      [] OTHER         -> [ok |-> FALSE, bill_amount |-> 0, has_tip_percentage |-> FALSE, tip_percentage |-> 0]

\* A number of cents as JSON.stringify prints the dollars (parseFloat of toFixed(2)).
FormatCents(c) ==
    IF c % 100 = 0 THEN ToString(c \div 100)
    ELSE IF c % 10 = 0 THEN ToString(c \div 100) \o "." \o ToString((c % 100) \div 10)
    ELSE ToString(c \div 100) \o "." \o ToString((c % 100) \div 10) \o ToString(c % 10)

\* A handler's return value: undefined, or an object (with or without an
\* `error` key) and the properties JSON.stringify prints for it.
Result(isError, fields) == [undefined |-> FALSE, error |-> isError, fields |-> fields]

\* Variant: the tip is 15% when no tip_percentage is given.
calculateTip_Default15(args) ==
    LET tip_percentage == IF args.has_tip_percentage THEN args.tip_percentage ELSE 15
        tipAmount == args.bill_amount * tip_percentage
        totalAmount == args.bill_amount * 100 + tipAmount
    IN  [undefined |-> FALSE, error |-> FALSE,
         fields |-> "\"original_bill\":" \o ToString(args.bill_amount)
                    \o ",\"tip_percentage\":" \o ToString(tip_percentage)
                    \o ",\"tip_amount\":" \o ToString(tipAmount \div 100) \o "." \o ToString((tipAmount % 100) \div 10)
                    \o ",\"total_amount\":" \o ToString(totalAmount \div 100) \o "." \o ToString((totalAmount % 100) \div 10)]

\* calculateTip(bill_amount, tip_percentage = 20), amounts in cents
DefaultTipPercentage == 20
calculateTip(args) ==
    LET tip_percentage == IF args.has_tip_percentage THEN args.tip_percentage
                          ELSE DefaultTipPercentage
        tipAmount == args.bill_amount * tip_percentage
        totalAmount == args.bill_amount * 100 + tipAmount
    IN  Result(FALSE, "\"original_bill\":" \o ToString(args.bill_amount)
                      \o ",\"tip_percentage\":" \o ToString(tip_percentage)
                      \o ",\"tip_amount\":" \o FormatCents(tipAmount)
                      \o ",\"total_amount\":" \o FormatCents(totalAmount))

\* What the network does to a handler's fetch.
GeoOutcomes == {"found", "empty", "reject"}
WeatherOutcomes == {"ok", "api_error", "reject"}

\* geocodeLocation: no try/catch, a rejected fetch is rethrown (threw = TRUE)
geocodeLocation(outcome) ==
    CASE outcome = "found" -> [threw |-> FALSE, result |-> Result(FALSE, "\"latitude\":48,\"longitude\":2")]
      [] outcome = "empty" -> [threw |-> FALSE, result |-> Result(TRUE, "\"error\":\"No results found\"")]
      [] OTHER             -> [threw |-> TRUE, result |-> NoResult]

\* getCurrentWeather: try/catch around the fetch
getCurrentWeather(outcome) ==
    CASE outcome = "ok"        -> [threw |-> FALSE, result |-> Result(FALSE, "\"temperature_celsius\":20")]
      [] outcome = "api_error" -> [threw |-> FALSE, result |-> Result(TRUE, "\"error\":\"Weather API error\"")]
      [] OTHER                 -> [threw |-> FALSE, result |-> Result(TRUE, "\"error\":\"Failed to fetch weather\"")]

\* JSON.stringify(result): undefined for undefined
JSONStringify(r) == IF r.undefined THEN Undefined ELSE "{" \o r.fields \o "}"

\* The if / else-if chain that routes a function name to its handler.
HandlerOf(l, name) ==
    CASE l = "lesson01" /\ name = "calculate_tip" -> "calculateTip"
      [] l = "lesson02" /\ name = "geocode_location" -> "geocodeLocation"
      [] l = "lesson03" /\ name = "geocode_location" -> "geocodeLocation"
      [] l = "lesson03" /\ name = "get_current_weather" -> "getCurrentWeather"
      [] OTHER -> "none"

\* The handlers the loop awaits.
IsAsync(l, name) == HandlerOf(l, name) \in {"geocodeLocation", "getCurrentWeather"}

\* -------------------------------------------------------- the service
CallIds == {"c1", "c2"}
ItemIds == {"i1", "i2"}

\* Names the service asks for: the tools of the request, or one it made up.
ServiceNames(l) ==
    CASE l = "lesson01" -> {"calculate_tip", "nonexistent_tool"}
      [] l = "lesson02" -> {"geocode_location", "nonexistent_tool"}
      [] l = "lesson03" -> {"geocode_location", "get_current_weather", "nonexistent_tool"}
      [] OTHER -> {}

ArgsFor(name) ==
    CASE name = "calculate_tip" -> {ArgTip, ArgBad}
      [] name = "geocode_location" -> {ArgLocation, ArgBad}
      [] name = "get_current_weather" -> {ArgLatLon, ArgBad}
      [] OTHER -> {ArgEmpty}

OutputItems(l) ==
    {OutputMessage(ItemText)}
    \cup UNION {{FunctionCall(id, n, a) : id \in CallIds, a \in ArgsFor(n)} : n \in ServiceNames(l)}

SeqsUpTo(S, n) == UNION {[1..k -> S] : k \in 0..n}

MakeResponse(out) == [output |-> out, output_text |-> OutputText(out)]
NoResponse == MakeResponse(<<>>)

CountType(out, type) == Cardinality({i \in 1..Len(out) : out[i].type = type})

\* The outputs the service may give page l: at most MaxOutput items, at most
\* one of them a message, at most n function calls.
Outputs(l, n) ==
    {out \in SeqsUpTo(OutputItems(l), MaxOutput) :
        /\ CountType(out, "message") <= 1
        /\ CountType(out, "function_call") <= n}

MaxBudget == IF MaxCalls > MaxOutput THEN MaxCalls ELSE MaxOutput

ResponseTable ==
    [l \in Lessons |-> [n \in 0..MaxBudget |-> {MakeResponse(out) : out \in Outputs(l, n)}]]

\* The responses the service may give page l with at most n function calls.
Responses(l, n) == ResponseTable[l][n]

\* A direct call of pushTrace, trace, a callback of trace, or clearTrace: the
\* step it was given (for trace and a callback, the id and label given) and
\* `prev`, the ledger its updater was applied to.
Op(name, step, prev) == [name |-> name, step |-> step, prev |-> prev]
NoOp == Op("", Step("", "", "", NoData), <<>>)

\* A streamed event: its type and the fields the switch reads.
Event(type, item_id, delta, resp) ==
    [type |-> type, item_id |-> item_id, delta |-> delta, response |-> resp]
NoEvent == Event("", "", "", NoResponse)

\* ---------------------------------------------------------------- state
VARIABLES
    lesson,             \* the page that is mounted
    apiKey,             \* whether the page holds an API key
    mounted,            \* FALSE once a render has thrown and React dropped the tree
    messages,           \* useState<Message[]>
    isLoading,          \* useState(false)
    traceSteps,         \* useTrace: the ledger
    pc,                 \* where handleSend is suspended
    newMessages,        \* handleSend's local: [...messages, userMessage]
    inputList,          \* handleSend's local: the running input list
    response,           \* handleSend's local: the latest response
    roundNumber,        \* Lesson 03's local round counter
    callIdx,            \* the function call whose handler is awaited
    functionExecutions, \* functionExecutions / allFunctionExecutions
    requests,           \* the inputs of the requests this turn has sent
    caught,             \* the error handleSend's catch block received
    event,              \* the for await loop's variable: the event last taken
    nEvents,            \* events this turn's stream has delivered
    deltas,             \* the text fragments among them, in arrival order
    traceOp,            \* the last direct call of a useTrace function
    callbacks           \* the callbacks trace() has returned to a direct caller

vars == <<lesson, apiKey, mounted, messages, isLoading, traceSteps, pc, newMessages,
          inputList, response, roundNumber, callIdx, functionExecutions, requests,
          caught, event, nEvents, deltas, traceOp, callbacks>>

react == <<messages, isLoading, traceSteps>>
hook == <<traceOp, callbacks>>
locals == <<newMessages, inputList, response, roundNumber, callIdx, functionExecutions, event>>

Init ==
    /\ lesson \in Lessons
    /\ apiKey \in BOOLEAN
    /\ mounted = TRUE
    /\ messages = <<>>
    /\ isLoading = FALSE
    /\ traceSteps = <<>>
    /\ pc = "idle"
    /\ newMessages = <<>>
    /\ inputList = <<>>
    /\ response = NoResponse
    /\ roundNumber = 0
    /\ callIdx = 0
    /\ functionExecutions = <<>>
    /\ requests = <<>>
    /\ caught = NoError
    /\ event = NoEvent
    /\ nEvents = 0
    /\ deltas = <<>>
    /\ traceOp = NoOp
    /\ callbacks = {}

\* ApiKeyConfig calls onKeyValidated = setApiKey
KeyValidated ==
    /\ mounted /\ ~apiKey
    /\ apiKey' = TRUE
    /\ UNCHANGED <<hook, lesson, mounted, react, pc, locals, requests, caught, nEvents, deltas>>

\* The first ledger write of a turn, after clearTrace().
InitialStep(l, msgs) ==
    CASE l = "baseline" ->
           Step("request", "Sending request to model", "in-progress",
                Data("request", Len(msgs), NoResult))
      [] l \in ToolLessons ->
           Step("initial-request", "Sending request to model", "in-progress",
                Data("request", Len(msgs), NoResult))
      [] OTHER ->
           Step("stream-request", "Streaming response...", "in-progress",
                Data("request", Len(msgs), NoResult))

\* handleSend(input), up to the first await
HandleSend(input) ==
    /\ mounted /\ apiKey
    /\ isLoading' = TRUE
    /\ newMessages' = Append(messages, UserMessage(input))
    /\ messages' = newMessages'
    /\ traceSteps' = PushTrace(ClearTrace(traceSteps), InitialStep(lesson, newMessages'))
    /\ requests' = <<ToInput(newMessages')>>
    /\ pc' = "awaitInitial"
    /\ inputList' = <<>>
    /\ response' = NoResponse
    /\ roundNumber' = 0
    /\ callIdx' = 0
    /\ functionExecutions' = <<>>
    /\ caught' = NoError
    /\ event' = NoEvent
    /\ nEvents' = 0
    /\ deltas' = <<>>
    /\ UNCHANGED <<hook, lesson, apiKey, mounted>>

\* handleClear: setMessages([]); clearTrace()
HandleClear ==
    /\ mounted /\ apiKey
    /\ messages' = <<>>
    /\ traceSteps' = ClearTrace(traceSteps)
    /\ UNCHANGED <<hook, lesson, apiKey, mounted, isLoading, pc, locals, requests, caught, nEvents, deltas>>

\* catch (error) { setMessages((prev) => [...prev, error message]) }
\* finally { setIsLoading(false) }
\* handleSend returns: its locals are gone.
Return ==
    /\ pc' = "idle"
    /\ newMessages' = <<>>
    /\ inputList' = <<>>
    /\ response' = NoResponse
    /\ roundNumber' = 0
    /\ callIdx' = 0
    /\ functionExecutions' = <<>>
    /\ event' = NoEvent

\* Variant: a catch block with no finally after it, isLoading stays set.
CatchBlock_NoFinally(e) ==
    /\ messages' = Append(messages, ErrorMessage(e))
    /\ UNCHANGED isLoading
    /\ caught' = e
    /\ Return

\* Variant: the catch block takes the user's message back before it reports
\* the error.
CatchBlock_RollsBack(e) ==
    /\ messages' = Append(SubSeq(messages, 1, Len(messages) - 1), ErrorMessage(e))
    /\ isLoading' = FALSE
    /\ caught' = e
    /\ Return

CatchBlock(e) ==
    /\ messages' = Append(messages, ErrorMessage(e))
    /\ isLoading' = FALSE
    /\ caught' = e
    /\ Return

\* Variant: the final answer is shown and isLoading is left set.
Finish_StaysLoading(resp, fc) ==
    /\ messages' = Append(newMessages, AssistantMessage(resp, fc))
    /\ UNCHANGED isLoading
    /\ Return

\* setMessages([...newMessages, assistantMessage]); finally
Finish(resp, fc) ==
    /\ messages' = Append(newMessages, AssistantMessage(resp, fc))
    /\ isLoading' = FALSE
    /\ Return

\* await client.responses.create(...) rejects
RequestFails ==
    /\ mounted
    /\ pc \in {"awaitInitial", "awaitFollowup"}
    /\ CatchBlock(ServiceError)
    /\ UNCHANGED <<hook, lesson, apiKey, mounted, traceSteps, requests, nEvents, deltas>>

\* Baseline chat: the response arrives
BaselineResponse(resp) ==
    /\ mounted
    /\ lesson = "baseline" /\ pc = "awaitInitial"
    /\ traceSteps' = TraceDone(traceSteps, "request", "Response received",
                               Data("output", Len(resp.output), NoResult))
    /\ Finish(resp, FALSE)
    /\ UNCHANGED <<hook, lesson, apiKey, mounted, requests, caught, nEvents, deltas>>


\* ------------------------------------------------ the tool-calling loop
ExecId(tc) == "exec-" \o tc.call_id

\* The entry pushed on functionExecutions / allFunctionExecutions.
Execution(tc, result) ==
    [call_id |-> tc.call_id, function_name |-> tc.name, result |-> result]

\* Variant: the output is put at the head of the input list (unshift).
AfterHandler_Unshift(st, tc, result) ==
    [ts |-> TraceDone(st.ts, ExecId(tc), tc.name \o "() returned",
                      Data("call+result", 0, result)),
     il |-> <<FunctionCallOutput(tc.call_id, JSONStringify(result))>> \o st.il,
     fx |-> Append(st.fx, Execution(tc, result))]

\* Variant: a call to a name without a handler gets no output item.
AfterHandler_SkipUnknown(st, tc, result) ==
    [ts |-> TraceDone(st.ts, ExecId(tc), tc.name \o "() returned",
                      Data("call+result", 0, result)),
     il |-> IF result.undefined THEN st.il
            ELSE Append(st.il, FunctionCallOutput(tc.call_id, JSONStringify(result))),
     fx |-> Append(st.fx, Execution(tc, result))]

\* The tail of one loop iteration, once the handler has returned `result`:
\* execDone(...), functionExecutions.push(...), inputList.push(output).
AfterHandler(st, tc, result) ==
    [ts |-> TraceDone(st.ts, ExecId(tc), tc.name \o "() returned",
                      Data("call+result", 0, result)),
     il |-> Append(st.il, FunctionCallOutput(tc.call_id, JSONStringify(result))),
     fx |-> Append(st.fx, Execution(tc, result))]

\* The handlers that return without suspending: calculateTip, or no branch
\* of the routing chain taken (`let result` stays undefined).
SyncResult(l, tc) ==
    IF HandlerOf(l, tc.name) = "calculateTip"
    THEN calculateTip(JSONParse(tc.arguments))
    ELSE NoResult

\* for (const toolCall of functionCalls) from the k-th call on, run until a
\* handler is awaited (await = TRUE, k the call awaited) or the loop ends.
RECURSIVE RunCalls(_, _, _, _)
RunCalls(l, st, k, fcs) ==
    IF k > Len(fcs)
    THEN [ts |-> st.ts, il |-> st.il, fx |-> st.fx, k |-> k, await |-> FALSE]
    ELSE LET tc == fcs[k]
             begun == [st EXCEPT !.ts = TraceBegin(st.ts, ExecId(tc),
                                                   "Executing " \o tc.name \o "()",
                                                   Data("call", 0, NoResult))]
         IN  IF IsAsync(l, tc.name)
             THEN [ts |-> begun.ts, il |-> begun.il, fx |-> begun.fx, k |-> k, await |-> TRUE]
             ELSE RunCalls(l, AfterHandler(begun, tc, SyncResult(l, tc)), k + 1, fcs)

\* Variant: every round's follow-up request is reported under one id.
FollowupId_NoRound(l, rn) ==
    IF l \in SingleRound THEN "second-request" ELSE "round-followup"

\* Variant: the follow-up request is reported under the id of the step that
\* reported the calls.
FollowupId_CallsId(l, rn) ==
    IF l \in SingleRound THEN "initial-request"
    ELSE "round-" \o ToString(rn) \o "-calls"

\* The ledger id of the request that carries the tool results back.
FollowupId(l, rn) ==
    IF l \in SingleRound THEN "second-request"
    ELSE "round-" \o ToString(rn) \o "-followup"

FollowupLabel(l, rn) ==
    IF l \in SingleRound THEN "Sending function results to model"
    ELSE "Sending round " \o ToString(rn) \o " results to model"

\* After RunCalls: suspended on a handler, or the follow-up request is sent.
Proceed(r, rn) ==
    /\ inputList' = r.il
    /\ functionExecutions' = r.fx
    /\ callIdx' = r.k
    /\ UNCHANGED <<messages, isLoading, caught>>
    /\ IF r.await
       THEN /\ traceSteps' = r.ts
            /\ pc' = "awaitTool"
            /\ UNCHANGED requests
       ELSE /\ traceSteps' = TraceBegin(r.ts, FollowupId(lesson, rn), FollowupLabel(lesson, rn),
                                        Data("input", Len(r.il), NoResult))
            /\ requests' = Append(requests, r.il)
            /\ pc' = "awaitFollowup"

\* The ledger write that reports a response's function calls; its data maps
\* JSON.parse over the arguments of every call.
CallsStep(l, rn, fcs) ==
    IF l \in SingleRound
    THEN Step("initial-request", "Model requested function call(s)", "completed",
              Data("calls", Len(fcs), NoResult))
    ELSE Step("round-" \o ToString(rn) \o "-calls",
              "Round " \o ToString(rn) \o ": " \o ToString(Len(fcs)) \o " tool call(s)",
              "completed", Data("calls", Len(fcs), NoResult))

ArgumentsParse(fcs) == \A i \in 1..Len(fcs) : JSONParse(fcs[i].arguments).ok

\* Variant: a round cap, the loop is left when a second round would begin.
StartRound_Capped(resp, ts, il, rn) ==
    LET fcs == FilterCalls(resp.output)
    IN  IF rn > 1
        THEN /\ traceSteps' = ts
             /\ Finish(resp, TRUE)
             /\ UNCHANGED <<requests, caught>>
        ELSE IF ~ArgumentsParse(fcs)
        THEN /\ CatchBlock(SyntaxError)
             /\ traceSteps' = ts
             /\ UNCHANGED requests
        ELSE /\ response' = resp
             /\ roundNumber' = rn
             /\ UNCHANGED <<newMessages, event>>
             /\ Proceed(RunCalls(lesson,
                                [ts |-> PushTrace(ts, CallsStep(lesson, rn, fcs)),
                                 il |-> il \o resp.output,
                                 fx |-> functionExecutions],
                                1, fcs),
                       rn)

\* A response with function calls: report them, append the response's output
\* to the input list (ts, il: the ledger and the list so far) and run the calls.
StartRound(resp, ts, il, rn) ==
    LET fcs == FilterCalls(resp.output)
    IN  IF ~ArgumentsParse(fcs)
        THEN /\ CatchBlock(SyntaxError)
             /\ traceSteps' = ts
             /\ UNCHANGED requests
        ELSE /\ response' = resp
             /\ roundNumber' = rn
             /\ UNCHANGED <<newMessages, event>>
             /\ Proceed(RunCalls(lesson,
                                [ts |-> PushTrace(ts, CallsStep(lesson, rn, fcs)),
                                 il |-> il \o resp.output,
                                 fx |-> functionExecutions],
                                1, fcs),
                       rn)

\* The ledger write for a response without function calls.
DoneStep(l, rn, resp) ==
    IF l \in SingleRound
    THEN Step("initial-request", "Model responded (no tool calls)", "completed",
              Data("output", Len(resp.output), NoResult))
    ELSE Step("round-" \o ToString(rn) \o "-done",
              IF rn = 0 THEN "Model responded (no tool calls)" ELSE "Final response received",
              "completed", Data("output", Len(resp.output), NoResult))

\* Lesson 01-03: the first response arrives
InitialResponse(resp) ==
    /\ mounted
    /\ lesson \in ToolLessons /\ pc = "awaitInitial"
    /\ IF FilterCalls(resp.output) = <<>>
       THEN /\ traceSteps' = PushTrace(traceSteps, DoneStep(lesson, 0, resp))
            /\ Finish(resp, FALSE)
            /\ UNCHANGED <<requests, caught>>
       ELSE StartRound(resp, traceSteps, ToInput(newMessages),
                       IF lesson = "lesson03" THEN 1 ELSE 0)
    /\ UNCHANGED <<hook, lesson, apiKey, mounted, nEvents, deltas>>

\* Variant: the second response's function calls are run like the first's and
\* their outputs sent in a third request.
SecondResponse_RunsCalls(resp) ==
    /\ mounted
    /\ lesson \in SingleRound /\ pc = "awaitFollowup"
    /\ LET ts == TraceDone(traceSteps, "second-request", "Final response received",
                           Data("output", Len(resp.output), NoResult))
       IN  IF FilterCalls(resp.output) = <<>>
           THEN /\ traceSteps' = ts
                /\ Finish(resp, TRUE)
                /\ UNCHANGED <<requests, caught>>
           ELSE StartRound(resp, ts, inputList, 0)
    /\ UNCHANGED <<hook, lesson, apiKey, mounted, nEvents, deltas>>

\* Lesson 01/02: the second response arrives; its function calls are not read
SecondResponse(resp) ==
    /\ mounted
    /\ lesson \in SingleRound /\ pc = "awaitFollowup"
    /\ traceSteps' = TraceDone(traceSteps, "second-request", "Final response received",
                               Data("output", Len(resp.output), NoResult))
    /\ Finish(resp, TRUE)
    /\ UNCHANGED <<hook, lesson, apiKey, mounted, requests, caught, nEvents, deltas>>

\* Lesson 03: a round's follow-up response arrives; back to the loop head
FollowupResponse(resp) ==
    /\ mounted
    /\ lesson = "lesson03" /\ pc = "awaitFollowup"
    /\ LET ts == TraceDone(traceSteps, FollowupId(lesson, roundNumber),
                           "Round " \o ToString(roundNumber) \o " response received",
                           Data("output", Len(resp.output), NoResult))
       IN  IF FilterCalls(resp.output) = <<>>
           THEN /\ traceSteps' = PushTrace(ts, DoneStep(lesson, roundNumber, resp))
                /\ Finish(resp, functionExecutions # <<>>)
                /\ UNCHANGED <<requests, caught>>
           ELSE StartRound(resp, ts, inputList, roundNumber + 1)
    /\ UNCHANGED <<hook, lesson, apiKey, mounted, nEvents, deltas>>

\* The call whose handler handleSend is awaiting.
AwaitedCall == FilterCalls(response.output)[callIdx]

\* await geocodeLocation(...) / await getCurrentWeather(...) settles
ToolSettles(outcome) ==
    /\ mounted
    /\ pc = "awaitTool"
    /\ outcome \in (IF HandlerOf(lesson, AwaitedCall.name) = "geocodeLocation"
                    THEN GeoOutcomes ELSE WeatherOutcomes)
    /\ LET tc == AwaitedCall
           ret == IF HandlerOf(lesson, tc.name) = "geocodeLocation"
                  THEN geocodeLocation(outcome) ELSE getCurrentWeather(outcome)
       IN  IF ret.threw
           THEN /\ CatchBlock(FetchError)
                /\ UNCHANGED <<traceSteps, requests>>
           ELSE /\ Proceed(RunCalls(lesson,
                                    AfterHandler([ts |-> traceSteps, il |-> inputList,
                                                  fx |-> functionExecutions], tc, ret.result),
                                    callIdx + 1, FilterCalls(response.output)),
                           roundNumber)
                /\ UNCHANGED <<newMessages, response, roundNumber, event>>
    /\ UNCHANGED <<hook, lesson, apiKey, mounted, nEvents, deltas>>


\* ---------------------------------------------------- streaming lessons
\* Lesson 05/06: await client.responses.create({ stream: true }) resolves;
\* setMessages([...newMessages, { role: 'assistant', content: '' }])
StreamOpens ==
    /\ mounted
    /\ lesson \in Streaming /\ pc = "awaitInitial"
    /\ messages' = Append(newMessages, Msg("assistant", "", <<>>, FALSE))
    /\ pc' = "streaming"
    /\ UNCHANGED <<hook, lesson, apiKey, mounted, isLoading, traceSteps, locals, requests,
                   caught, nEvents, deltas>>

\* Variant: the step id leaves out the event's item_id.
LifecycleStep_SharedId(type, id) ==
    Step(IF type \in {"response.web_search_call.in_progress",
                      "response.web_search_call.searching",
                      "response.web_search_call.completed"} THEN "web-search" ELSE "mcp",
         "Tool call", "in-progress", NoData)

\* The tool lifecycle cases of the switch: event type -> the step written.
LifecycleStep(type, id) ==
    CASE type = "response.web_search_call.in_progress" ->
           Step("web-search-" \o id, "Web search initiated", "in-progress", NoData)
      [] type = "response.web_search_call.searching" ->
           Step("web-search-" \o id, "Searching the web...", "in-progress", NoData)
      [] type = "response.web_search_call.completed" ->
           Step("web-search-" \o id, "Web search completed", "completed", NoData)
      [] type = "response.mcp_list_tools.in_progress" ->
           Step("mcp-list-" \o id, "Listing MCP tools...", "in-progress", NoData)
      [] type = "response.mcp_list_tools.completed" ->
           Step("mcp-list-" \o id, "MCP tools listed", "completed", NoData)
      [] type = "response.mcp_call.in_progress" ->
           Step("mcp-call-" \o id, "MCP tool call in progress...", "in-progress", NoData)
      [] type = "response.mcp_call.completed" ->
           Step("mcp-call-" \o id, "MCP tool call completed", "completed", NoData)
      [] OTHER ->
           Step("mcp-call-" \o id, "MCP tool call failed", "error", NoData)

WebSearchEvents == {"response.web_search_call.in_progress",
                    "response.web_search_call.searching",
                    "response.web_search_call.completed"}
McpEvents == {"response.mcp_list_tools.in_progress", "response.mcp_list_tools.completed",
              "response.mcp_call.in_progress", "response.mcp_call.completed",
              "response.mcp_call.failed"}
\* Event types with no case in either switch.
OtherEvents == {"response.created"}

\* The lifecycle cases page l's switch has.
LifecycleCases(l) == IF l = "lesson05" THEN WebSearchEvents ELSE McpEvents

\* for await (const event of stream): a tool lifecycle event
LifecycleEvent(type, id) ==
    /\ mounted
    /\ pc = "streaming" /\ nEvents < MaxEvents
    /\ type \in LifecycleCases(lesson)
    /\ traceSteps' = PushTrace(traceSteps, LifecycleStep(type, id))
    /\ event' = Event(type, id, "", NoResponse)
    /\ nEvents' = nEvents + 1
    /\ UNCHANGED deltas
    /\ UNCHANGED <<hook, lesson, apiKey, mounted, messages, isLoading, pc, newMessages, inputList,
                   response, roundNumber, callIdx, functionExecutions, requests, caught>>

\* An updater that reads `last.content` of an empty list throws while React
\* renders; no error boundary is mounted, so React drops the whole tree.
RenderThrows ==
    /\ mounted' = FALSE
    /\ pc' = "unmounted"
    /\ UNCHANGED react

\* Variant: every fragment is shown as a message of its own.
TextDelta_NewMessage(delta) ==
    /\ mounted
    /\ pc = "streaming" /\ nEvents < MaxEvents
    /\ event' = Event("response.output_text.delta", "", delta, NoResponse)
    /\ nEvents' = nEvents + 1
    /\ deltas' = Append(deltas, delta)
    /\ messages' = Append(messages, Msg("assistant", delta, <<>>, FALSE))
    /\ UNCHANGED <<hook, lesson, apiKey, mounted, pc, isLoading, traceSteps, newMessages, inputList,
                   response, roundNumber, callIdx, functionExecutions, requests, caught>>

\* Variant: the fragment is put in front of the content.
TextDelta_Prepend(delta) ==
    /\ mounted
    /\ pc = "streaming" /\ nEvents < MaxEvents
    /\ event' = Event("response.output_text.delta", "", delta, NoResponse)
    /\ nEvents' = nEvents + 1
    /\ deltas' = Append(deltas, delta)
    /\ messages # <<>>
    /\ messages' = [messages EXCEPT ![Len(messages)].content = delta \o @]
    /\ UNCHANGED <<hook, lesson, apiKey, mounted, pc, isLoading, traceSteps, newMessages, inputList,
                   response, roundNumber, callIdx, functionExecutions, requests, caught>>

\* case 'response.output_text.delta'
TextDelta(delta) ==
    /\ mounted
    /\ pc = "streaming" /\ nEvents < MaxEvents
    /\ event' = Event("response.output_text.delta", "", delta, NoResponse)
    /\ nEvents' = nEvents + 1
    /\ deltas' = Append(deltas, delta)
    /\ IF messages = <<>>
       THEN RenderThrows
       ELSE /\ messages' = [messages EXCEPT ![Len(messages)].content = @ \o delta]
            /\ UNCHANGED <<mounted, pc, isLoading, traceSteps>>
    /\ UNCHANGED <<hook, lesson, apiKey, newMessages, inputList, response, roundNumber, callIdx,
                   functionExecutions, requests, caught>>

\* Variant: the snapshot is attached but the content is left as the deltas built it.
ResponseCompleted_KeepsDeltas(finalResponse) ==
    /\ mounted
    /\ pc = "streaming" /\ nEvents < MaxEvents
    /\ event' = Event("response.completed", "", "", finalResponse)
    /\ nEvents' = nEvents + 1
    /\ UNCHANGED deltas
    /\ messages' = IF messages = <<>> THEN messages
                   ELSE [messages EXCEPT ![Len(messages)].rawResponse = <<finalResponse>>]
    /\ traceSteps' =
         PushTrace(PushTrace(traceSteps,
                             Step("stream-request", "Streaming started", "completed", NoData)),
                   Step("stream-complete", "Response complete", "completed",
                        Data("output", Len(finalResponse.output), NoResult)))
    /\ UNCHANGED <<hook, lesson, apiKey, mounted, pc, isLoading, newMessages, inputList, response,
                   roundNumber, callIdx, functionExecutions, requests, caught>>

\* case 'response.completed': finalResponse = event.response.
\* On an empty list the write goes to index -1, which no later copy keeps.
ResponseCompleted(finalResponse) ==
    /\ mounted
    /\ pc = "streaming" /\ nEvents < MaxEvents
    /\ event' = Event("response.completed", "", "", finalResponse)
    /\ nEvents' = nEvents + 1
    /\ UNCHANGED deltas
    /\ IF messages = <<>> /\ finalResponse.output_text = ""
       THEN RenderThrows
       ELSE /\ messages' =
                 IF messages = <<>> THEN messages
                 ELSE [messages EXCEPT ![Len(messages)] =
                         [@ EXCEPT !.content = IF finalResponse.output_text = ""
                                               THEN @ ELSE finalResponse.output_text,
                                   !.rawResponse = <<finalResponse>>]]
            /\ traceSteps' =
                 PushTrace(PushTrace(traceSteps,
                                     Step("stream-request", "Streaming started", "completed",
                                          NoData)),
                           Step("stream-complete", "Response complete", "completed",
                                Data("output", Len(finalResponse.output), NoResult)))
            /\ UNCHANGED <<mounted, pc, isLoading>>
    /\ UNCHANGED <<hook, lesson, apiKey, newMessages, inputList, response, roundNumber, callIdx,
                   functionExecutions, requests, caught>>

\* Variant: the default case reports the event in the ledger.
IgnoredEvent_Logged(type) ==
    /\ mounted
    /\ pc = "streaming" /\ nEvents < MaxEvents
    /\ event' = Event(type, "", "", NoResponse)
    /\ nEvents' = nEvents + 1
    /\ traceSteps' = PushTrace(traceSteps, Step("unknown-event", type, "error", NoData))
    /\ UNCHANGED <<hook, lesson, apiKey, mounted, messages, isLoading, pc, newMessages, inputList,
                   response, roundNumber, callIdx, functionExecutions, requests, caught, deltas>>

\* default: break
IgnoredEvent(type) ==
    /\ mounted
    /\ pc = "streaming" /\ nEvents < MaxEvents
    /\ type \in OtherEvents \cup ((WebSearchEvents \cup McpEvents) \ LifecycleCases(lesson))
    /\ event' = Event(type, "", "", NoResponse)
    /\ nEvents' = nEvents + 1
    /\ UNCHANGED deltas
    /\ UNCHANGED <<hook, lesson, apiKey, mounted, react, pc, newMessages, inputList, response,
                   roundNumber, callIdx, functionExecutions, requests, caught>>

\* The stream ends: the for await loop exits; finally
StreamEnds ==
    /\ mounted
    /\ pc = "streaming"
    /\ isLoading' = FALSE
    /\ Return
    /\ UNCHANGED <<hook, lesson, apiKey, mounted, messages, traceSteps, requests, caught, nEvents, deltas>>

\* The stream's iterator rejects (connection lost): catch, finally
StreamThrows ==
    /\ mounted
    /\ pc = "streaming"
    /\ CatchBlock(ServiceError)
    /\ UNCHANGED <<hook, lesson, apiKey, mounted, traceSteps, requests, nEvents, deltas>>

\* The final responses a stream's response.completed may carry.
FinalResponses ==
    {[output |-> IF t = "" THEN <<>> ELSE <<OutputMessage(t)>>, output_text |-> t] : t \in Texts}

\* The function calls the service may still request in this turn.
CallBudget == MaxCalls - Len(functionExecutions)

\* The responses that may arrive: none unless a request is pending at p.
Arriving(p, n) == IF pc = p THEN Responses(lesson, n) ELSE {}

\* ------------------------------------------------- useTrace, called directly
\* A component that holds the hook and calls its functions in any order.
TraceIds == {"s1", "s2", "s3"}
TraceLabels == {"l1"}
CompletedLabels == {Undefined, "l2"}
\* completedData: nothing, or a payload that reports an error.
ErrorData == Data("result", 0, Result(TRUE, "\"error\":\"failed\""))
CompletedData == {NoData, ErrorData}
Statuses == {"in-progress", "completed", "error"}

\* pushTrace(step)
PushTraceCall(step) ==
    /\ mounted
    /\ traceSteps' = PushTrace(traceSteps, step)
    /\ traceOp' = Op("pushTrace", step, traceSteps)
    /\ UNCHANGED <<callbacks, lesson, apiKey, mounted, messages, isLoading, pc, locals,
                   requests, caught, nEvents, deltas>>

\* const done = trace(id, label, data)
TraceCall(id, label, data) ==
    /\ mounted
    /\ traceSteps' = TraceBegin(traceSteps, id, label, data)
    /\ callbacks' = callbacks \cup {[id |-> id, label |-> label]}
    /\ traceOp' = Op("trace", Step(id, label, "", data), traceSteps)
    /\ UNCHANGED <<lesson, apiKey, mounted, messages, isLoading, pc, locals,
                   requests, caught, nEvents, deltas>>

\* A call of the callback `cb`: the arguments it was given, the label its
\* trace call was given, and the ledger it found.
Completion(cb, completedLabel, completedData, prev) ==
    [name |-> "done", step |-> Step(cb.id, completedLabel, "", completedData),
     prev |-> prev, label |-> cb.label]

\* done(completedLabel, completedData): label is completedLabel ?? label
DoneCall(cb, completedLabel, completedData) ==
    /\ mounted
    /\ cb \in callbacks
    /\ traceSteps' = TraceDone(traceSteps, cb.id,
                               IF completedLabel = Undefined THEN cb.label ELSE completedLabel,
                               completedData)
    /\ traceOp' = Completion(cb, completedLabel, completedData, traceSteps)
    /\ UNCHANGED <<callbacks, lesson, apiKey, mounted, messages, isLoading, pc, locals,
                   requests, caught, nEvents, deltas>>

\* The steps of a batch: two ids, begun or completed.
BatchSteps ==
    {Step(id, "l1", status, NoData) : id \in {"s1", "s2"}, status \in {"in-progress", "completed"}}
Batches == UNION {[1..n -> BatchSteps] : n \in 2..MaxBatch}
Batch(steps, prev) == [name |-> "batch", steps |-> steps, prev |-> prev]

\* One event handler calls pushTrace for each step of `steps`, back to back;
\* the observer reads the ledger of the render that follows.
BatchCall(steps) ==
    /\ mounted
    /\ traceSteps' = ApplyUpdaters(traceSteps, steps)
    /\ traceOp' = Batch(steps, traceSteps)
    /\ UNCHANGED <<callbacks, lesson, apiKey, mounted, messages, isLoading, pc, locals,
                   requests, caught, nEvents, deltas>>

\* clearTrace()
ClearTraceCall ==
    /\ mounted
    /\ traceSteps' = ClearTrace(traceSteps)
    /\ traceOp' = Op("clearTrace", NoOp.step, traceSteps)
    /\ UNCHANGED <<callbacks, lesson, apiKey, mounted, messages, isLoading, pc, locals,
                   requests, caught, nEvents, deltas>>

\* ------------------------------------------------------- specification
\* The Clear button pressed while no turn is in flight.
ClearWhenIdle == ~isLoading /\ HandleClear

\* Variant: the chat input sends while a turn is in flight.
ChatInputSend_WhileLoading(input) ==
    IF Trim(input) # "" THEN HandleSend(Trim(input)) ELSE UNCHANGED vars

\* ChatInput.handleSend: if (input.trim() && !isLoading) onSend(input.trim())
ChatInputSend(input) ==
    IF Trim(input) # "" /\ ~isLoading THEN HandleSend(Trim(input)) ELSE UNCHANGED vars

\* The user sends a message, as long as the conversation is short.
UserSends == \E input \in ChatInputs : Len(messages) < MaxMessages /\ ChatInputSend(input)

\* Every page; the user clears the chat only between turns.
Next ==
    \/ KeyValidated
    \/ UserSends
    \/ ClearWhenIdle
    \/ RequestFails
    \/ \E resp \in Arriving("awaitInitial", 0) : BaselineResponse(resp)
    \/ \E resp \in Arriving("awaitInitial", MaxCalls) : InitialResponse(resp)
    \/ \E resp \in Arriving("awaitFollowup", MaxOutput) : SecondResponse(resp)
    \/ \E resp \in Arriving("awaitFollowup", CallBudget) : FollowupResponse(resp)
    \/ \E outcome \in GeoOutcomes \cup WeatherOutcomes : ToolSettles(outcome)
    \/ StreamOpens
    \/ \E type \in WebSearchEvents \cup McpEvents, id \in ItemIds : LifecycleEvent(type, id)
    \/ \E delta \in Fragments : TextDelta(delta)
    \/ \E finalResponse \in FinalResponses : ResponseCompleted(finalResponse)
    \/ \E type \in OtherEvents \cup WebSearchEvents \cup McpEvents : IgnoredEvent(type)
    \/ StreamEnds
    \/ StreamThrows

Spec == Init /\ [][Next]_vars

\* The pages of the three kinds (plain, tool loop, streaming) with a service
\* that answers Lesson 03 with one output item at a time and names its calls c1.
LiveLessons == {"baseline", "lesson03", "lesson05"}

LiveResponses(p) ==
    {resp \in Arriving(p, IF CallBudget > 0 THEN 1 ELSE 0) :
        /\ Len(resp.output) <= 1
        /\ \A i \in 1..Len(resp.output) : resp.output[i].call_id \in {"", "c1"}}

\* What a turn in flight waits for: the service's answer or failure, a
\* handler's settling, the stream's next event or its end.
Settles ==
    \/ RequestFails
    \/ \E resp \in Arriving("awaitInitial", 0) : BaselineResponse(resp)
    \/ \E resp \in LiveResponses("awaitInitial") : InitialResponse(resp)
    \/ \E resp \in LiveResponses("awaitFollowup") : FollowupResponse(resp)
    \/ \E outcome \in GeoOutcomes \cup WeatherOutcomes : ToolSettles(outcome)
    \/ StreamOpens
    \/ \E type \in WebSearchEvents, id \in ItemIds : LifecycleEvent(type, id)
    \/ \E delta \in Fragments : TextDelta(delta)
    \/ \E finalResponse \in FinalResponses : ResponseCompleted(finalResponse)
    \/ \E type \in OtherEvents \cup WebSearchEvents \cup McpEvents : IgnoredEvent(type)
    \/ StreamEnds
    \/ StreamThrows

InitLive == Init /\ lesson \in LiveLessons /\ apiKey

NextLive ==
    \/ UserSends
    \/ ClearWhenIdle
    \/ Settles

\* Every awaited promise settles and every stream ends: a step of Settles
\* that stays possible is taken.
SpecLive == InitLive /\ [][NextLive]_vars /\ WF_vars(Settles)

\* The streaming pages; the user may clear the chat at any moment.
InitStream == Init /\ lesson \in Streaming

NextStream ==
    \/ KeyValidated
    \/ UserSends
    \/ HandleClear
    \/ RequestFails
    \/ StreamOpens
    \/ \E type \in WebSearchEvents \cup McpEvents, id \in ItemIds : LifecycleEvent(type, id)
    \/ \E delta \in Fragments : TextDelta(delta)
    \/ \E finalResponse \in FinalResponses : ResponseCompleted(finalResponse)
    \/ \E type \in OtherEvents \cup WebSearchEvents \cup McpEvents : IgnoredEvent(type)
    \/ StreamEnds
    \/ StreamThrows

SpecStream == InitStream /\ [][NextStream]_vars

\* A conversation of more than one turn: the user sends again once a turn has
\* left its messages and its ledger behind.
UserSendsAgain ==
    \E input \in ChatInputs : Len(messages) <= MaxMessages + 1 /\ ChatInputSend(input)

InitTurns == Init /\ lesson \in TurnLessons /\ apiKey

\* The turn in flight began a conversation; a later turn is followed as far
\* as its first request, which can only fail.
OpeningTurn == Len(newMessages) <= MaxMessages

NextTurns ==
    \/ UserSendsAgain
    \/ ClearWhenIdle
    \/ RequestFails
    \/ \E resp \in Arriving("awaitInitial", 0) : OpeningTurn /\ BaselineResponse(resp)
    \/ \E resp \in Arriving("awaitInitial", MaxCalls) : OpeningTurn /\ InitialResponse(resp)
    \/ \E resp \in Arriving("awaitFollowup", MaxOutput) : SecondResponse(resp)
    \/ \E resp \in Arriving("awaitFollowup", CallBudget) : FollowupResponse(resp)
    \/ \E outcome \in GeoOutcomes \cup WeatherOutcomes : ToolSettles(outcome)
    \/ OpeningTurn /\ StreamOpens
    \/ \E type \in WebSearchEvents \cup McpEvents, id \in ItemIds : LifecycleEvent(type, id)
    \/ \E delta \in Fragments : TextDelta(delta)
    \/ \E finalResponse \in FinalResponses : ResponseCompleted(finalResponse)
    \/ \E type \in OtherEvents \cup WebSearchEvents \cup McpEvents : IgnoredEvent(type)
    \/ StreamEnds
    \/ StreamThrows

SpecTurns == InitTurns /\ [][NextTurns]_vars

\* Lesson 03 with a service that keeps asking for geocode_location, one call
\* more in a turn than the other specifications allow.
RoundBudget == MaxCalls + 1 - Len(functionExecutions)

RoundResponses(p) ==
    IF pc # p THEN {}
    ELSE {resp \in Responses("lesson03", IF RoundBudget < MaxCalls THEN RoundBudget ELSE MaxCalls) :
             \A i \in 1..Len(resp.output) :
                 resp.output[i].type = "function_call" =>
                     /\ resp.output[i].name = "geocode_location"
                     /\ resp.output[i].arguments = ArgLocation}

InitRounds == Init /\ lesson = "lesson03" /\ apiKey

NextRounds ==
    \/ UserSends
    \/ ClearWhenIdle
    \/ RequestFails
    \/ \E resp \in RoundResponses("awaitInitial") : InitialResponse(resp)
    \/ \E resp \in RoundResponses("awaitFollowup") : FollowupResponse(resp)
    \/ \E outcome \in GeoOutcomes : ToolSettles(outcome)

SpecRounds == InitRounds /\ [][NextRounds]_vars

\* The hook alone: a page without an API key, whose handlers cannot run.
InitTrace == Init /\ lesson = "baseline" /\ ~apiKey

NextTrace ==
    \/ \E id \in TraceIds, label \in TraceLabels, status \in Statuses :
          PushTraceCall(Step(id, label, status, NoData))
    \/ \E id \in TraceIds, label \in TraceLabels : TraceCall(id, label, NoData)
    \/ \E cb \in callbacks, completedLabel \in CompletedLabels, completedData \in CompletedData :
          DoneCall(cb, completedLabel, completedData)
    \/ ClearTraceCall

SpecTrace == InitTrace /\ [][NextTrace]_vars

\* The hook under event handlers that call pushTrace once or several times
\* between two renders.
NextBatch ==
    \/ \E step \in BatchSteps \cup {Step("s3", "l1", "completed", NoData)} : PushTraceCall(step)
    \/ \E steps \in Batches : BatchCall(steps)
    \/ ClearTraceCall

SpecBatch == InitTrace /\ [][NextBatch]_vars

\* The hook under trace calls that record a payload, and callbacks called with
\* and without a label and a payload.
BeginIds == {"s1", "s2"}
BeginLabels == {"l1", "l3"}
BeginData == {NoData, Data("begin", 1, NoResult)}
PassedLabels == CompletedLabels \cup {""}

NextCompletion ==
    \/ \E id \in BeginIds, label \in BeginLabels, data \in BeginData : TraceCall(id, label, data)
    \/ \E cb \in callbacks, completedLabel \in PassedLabels, completedData \in CompletedData :
          DoneCall(cb, completedLabel, completedData)
    \/ ClearTraceCall

SpecCompletion == InitTrace /\ [][NextCompletion]_vars


\* ----------------------------------------------------------- properties
Last(s) == s[Len(s)]

\* The function calls of the response whose round is being worked on.
RoundCalls == FilterCalls(response.output)

CountOutputs(input, id) ==
    Cardinality({i \in 1..Len(input) :
                    input[i].type = "function_call_output" /\ input[i].call_id = id})

CountCalls(input, id) ==
    Cardinality({i \in 1..Len(input) :
                    input[i].type = "function_call" /\ input[i].call_id = id})

\* No call id is used by two function calls of the turn.
IdsUnique(input) == \A id \in CallIds : CountCalls(input, id) <= 1

\* C1 (round result ordering): whenever a follow-up request has just been sent
\* for a response with N >= 1 function calls, its input is the previous
\* request's input, then the response's output items in their order, then N
\* function_call_output items whose call ids follow the order of the calls.
C1_RoundResultOrdering ==
    pc = "awaitFollowup" =>
        LET n == Len(requests)
            prev == requests[n - 1]
            cur == requests[n]
            out == response.output
            base == Len(prev) + Len(out)
        IN  /\ n >= 2
            /\ RoundCalls # <<>>
            /\ Len(cur) = base + Len(RoundCalls)
            /\ SubSeq(cur, 1, Len(prev)) = prev
            /\ SubSeq(cur, Len(prev) + 1, base) = out
            /\ \A k \in 1..Len(RoundCalls) :
                  /\ cur[base + k].type = "function_call_output"
                  /\ cur[base + k].call_id = RoundCalls[k].call_id

\* Lesson 03 has sent the follow-up of a response with two calls, c2 before c1.
C1_Witness ==
    /\ lesson = "lesson03" /\ pc = "awaitFollowup"
    /\ Len(requests) = 2
    /\ Len(RoundCalls) = 2
    /\ RoundCalls[1].call_id = "c2" /\ RoundCalls[2].call_id = "c1"
    /\ Last(Last(requests)).call_id = "c1"

SecondRequestHasCall ==
    Len(requests) >= 2 =>
        \E i \in (Len(requests[1]) + 1)..Len(requests[2]) :
            requests[2][i].type = "function_call"

\* A turn of a non-streaming page that ended with the model's answer to its
\* first and only request.
AnsweredAtOnce ==
    /\ pc = "idle" /\ lesson \notin Streaming
    /\ messages # <<>>
    /\ Last(messages).rawResponse # <<>>
    /\ Len(requests) = 1

\* The ledger and the final message show no tool execution.
NoToolRan ==
    /\ \A i \in 1..Len(traceSteps) :
          traceSteps[i].id \in {"request", "initial-request", "round-0-done"}
    /\ ~Last(messages).functionCall

\* C3 as the specification states it (zero-tool termination): a turn whose
\* first response has no function call sends exactly one request, runs no
\* tool, and its final message's content equals the response's output_text,
\* the empty text included.
C3_ZeroToolVerbatim ==
    /\ SecondRequestHasCall
    /\ AnsweredAtOnce =>
          LET raw == Last(messages).rawResponse[1]
          IN  /\ FilterCalls(raw.output) = <<>>
              /\ NoToolRan
              /\ Last(messages).role = "assistant"
              /\ Last(messages).content = raw.output_text

\* C3 (zero-tool termination), as the code has it: a turn whose first response
\* has no function call sends exactly one request, runs no tool, and its
\* final message's content is the response's output_text when that is not
\* empty and the text 'No response' when it is.
C3_ZeroToolFallback ==
    /\ SecondRequestHasCall
    /\ AnsweredAtOnce =>
          LET raw == Last(messages).rawResponse[1]
          IN  /\ FilterCalls(raw.output) = <<>>
              /\ NoToolRan
              /\ Last(messages).role = "assistant"
              /\ Last(messages).content =
                    IF raw.output_text = "" THEN "No response" ELSE raw.output_text

\* Lesson 03 answered at once with an empty output.
C3_Witness ==
    /\ AnsweredAtOnce /\ lesson = "lesson03"
    /\ Last(messages).rawResponse[1].output_text = ""
    /\ Last(messages).content = "No response"

\* The output item the input list holds for an execution.
OutputOf(fx) == FunctionCallOutput(fx.call_id, JSONStringify(fx.result))

\* C4 (unknown tool): when the follow-up request is sent, every call of the
\* turn that named a function without a handler has an output item whose
\* payload is an error object.
C4_UnknownToolErrorPayload ==
    pc = "awaitFollowup" =>
        \A k \in 1..Len(functionExecutions) :
            HandlerOf(lesson, functionExecutions[k].function_name) = "none" =>
                /\ ~functionExecutions[k].result.undefined
                /\ functionExecutions[k].result.error
                /\ \E i \in 1..Len(Last(requests)) :
                      Last(requests)[i] = OutputOf(functionExecutions[k])

\* C5 (malformed arguments): a function call whose arguments text does not
\* parse never aborts the turn: no SyntaxError reaches handleSend's catch.
C5_MalformedArgumentsContained == caught # SyntaxError

\* C6 (handler failure containment): a failure inside a tool handler never
\* propagates out of the loop: no fetch error reaches handleSend's catch.
C6_HandlerFailureContained == caught # FetchError

\* C7 (service failure aborts the turn): the step in which a request to the
\* service fails appends one assistant error message, ends the turn with
\* isLoading false, sends no request and writes no ledger step; and until the
\* next turn starts no request is sent and no tool runs.
C7_ServiceFailureAborts ==
    [][/\ (caught = NoError /\ caught' = ServiceError) =>
            /\ messages' = Append(messages, ErrorMessage(ServiceError))
            /\ isLoading /\ ~isLoading'
            /\ pc' = "idle"
            /\ requests' = requests
            /\ traceSteps' = traceSteps
       /\ (caught = ServiceError /\ caught' = ServiceError) =>
            /\ pc' = "idle" /\ ~isLoading'
            /\ requests' = requests
            /\ traceSteps' \in {traceSteps, <<>>}]_vars

\* Lesson 03's follow-up request failed after a round of tool calls.
C7_Witness ==
    /\ lesson = "lesson03" /\ pc = "idle" /\ ~isLoading
    /\ caught = ServiceError
    /\ Len(requests) = 2
    /\ Last(messages) = ErrorMessage(ServiceError)

\* The ledger id of the request that was pending when the turn ended.
PendingRequestId ==
    CASE lesson = "baseline" -> "request"
      [] lesson \in Streaming -> "stream-request"
      [] Len(requests) = 1 -> "initial-request"
      [] OTHER -> FollowupId(lesson, Len(requests) - 1)

\* C8 (failed request's step): after a request to the service has failed, the
\* ledger step written for that request has status error.
C8_FailedStepMarkedError ==
    (pc = "idle" /\ caught = ServiceError /\ traceSteps # <<>>) =>
        \E i \in 1..Len(traceSteps) :
            /\ traceSteps[i].id = PendingRequestId
            /\ traceSteps[i].status = "error"

\* C9 (one message per errored turn): the step in which a turn ends in an
\* error leaves the conversation as the turn's messages (the earlier ones and
\* the user's) plus exactly one assistant message, the error message.
C9_OneMessagePerErroredTurn ==
    [][(caught = NoError /\ caught' # NoError) =>
           messages' = Append(newMessages, ErrorMessage(caught'))]_vars

\* C10 as the specification states it (authoritative snapshot): after a
\* response.completed event carrying the final text T is processed, the
\* content of the in-progress assistant message equals T, for every T.
C10_SnapshotAlways ==
    [][(nEvents' = nEvents + 1 /\ event'.type = "response.completed" /\ messages # <<>>) =>
           /\ messages' # <<>>
           /\ Last(messages').content = event'.response.output_text]_vars

\* C10 (authoritative snapshot), as the code has it: after a
\* response.completed event carrying the final text T is processed while the
\* in-progress assistant message is in the list, the message's content equals
\* T when T is not empty and is what the deltas had built when T is empty.
C10_SnapshotUnlessEmpty ==
    [][(nEvents' = nEvents + 1 /\ event'.type = "response.completed" /\ messages # <<>>) =>
           /\ messages' # <<>>
           /\ Last(messages').rawResponse = <<event'.response>>
           /\ Last(messages').content =
                 IF event'.response.output_text = "" THEN Last(messages).content
                 ELSE event'.response.output_text]_vars

\* The second event of a stream was the snapshot "aa"; it is now the content of
\* the in-progress assistant message, whatever the first event had left there.
C10_Witness ==
    /\ pc = "streaming" /\ nEvents = 2
    /\ event.type = "response.completed"
    /\ event.response.output_text = "aa"
    /\ messages # <<>>
    /\ Last(messages).content = "aa"
    /\ Last(messages).role = "assistant"

\* The ledger has a step with this id.
HasStep(id) == \E i \in 1..Len(traceSteps) : traceSteps[i].id = id

\* The status of the first ledger step with this id.
StatusOf(id) == traceSteps[FindIndex(traceSteps, id)].status

\* A streaming turn that is over, whose stream ended normally without a
\* response.completed event: no response is attached to the assistant message.
StreamDropped ==
    /\ lesson \in Streaming /\ pc = "idle"
    /\ caught = NoError
    /\ messages # <<>>
    /\ Last(messages).role = "assistant"
    /\ Last(messages).rawResponse = <<>>

\* C11 (dropped stream): when the event sequence ends normally without a
\* response.completed event the turn ends in an error state: the ledger holds
\* a step with status error and the stream-request step is not in-progress.
C11_DroppedStreamIsError ==
    StreamDropped =>
        /\ \E i \in 1..Len(traceSteps) : traceSteps[i].status = "error"
        /\ HasStep("stream-request") => StatusOf("stream-request") # "in-progress"

\* response.completed has been processed for the stream being read.
CompletedProcessed == pc = "streaming" /\ HasStep("stream-complete")

\* C12 (completed is terminal): once response.completed has been processed,
\* no later event of the same stream changes the messages or the ledger.
C12_CompletedIsTerminal ==
    [][(CompletedProcessed /\ nEvents' = nEvents + 1) =>
           /\ messages' = messages
           /\ traceSteps' = traceSteps]_vars

RECURSIVE ConcatAll(_)
ConcatAll(ds) == IF ds = <<>> THEN "" ELSE Head(ds) \o ConcatAll(Tail(ds))

\* C13 (text deltas): processing a response.output_text.delta event with
\* fragment d replaces the content c of the last message by c followed by d,
\* changes nothing else in the messages and writes nothing to the ledger; and
\* while no response.completed has been processed the content of the
\* in-progress message is the fragments received so far, in arrival order.
C13_DeltasAppendInOrder ==
    [][/\ (nEvents' = nEvents + 1 /\ event'.type = "response.output_text.delta") =>
            /\ messages' = [messages EXCEPT ![Len(messages)].content = @ \o event'.delta]
            /\ traceSteps' = traceSteps
       /\ (pc' = "streaming" /\ ~HasStep("stream-complete")') =>
            Last(messages').content = ConcatAll(deltas')]_vars

\* Three events of a stream, among them the fragments "b" then "a", and no
\* response.completed: the content is "ba".
C13_Witness ==
    /\ pc = "streaming" /\ nEvents = 3
    /\ deltas = <<"b", "a">>
    /\ ~HasStep("stream-complete")
    /\ Last(messages).content = "ba"

\* The ledger id a lifecycle event of this type and correlation id addresses.
LedgerIdOf(type, i) ==
    (CASE type \in WebSearchEvents -> "web-search-"
       [] type \in {"response.mcp_list_tools.in_progress",
                    "response.mcp_list_tools.completed"} -> "mcp-list-"
       [] OTHER -> "mcp-call-") \o i

\* begin -> in-progress, completed -> completed, failed -> error
LifecycleStatus(type) ==
    CASE type \in {"response.web_search_call.completed", "response.mcp_list_tools.completed",
                   "response.mcp_call.completed"} -> "completed"
      [] type = "response.mcp_call.failed" -> "error"
      [] OTHER -> "in-progress"

\* C14 (tool lifecycle events): a lifecycle event with correlation id i upserts
\* exactly one ledger step: afterwards one entry has the id of the event's
\* family and i, with the event's status, at the index the id had or at the
\* end when it had none, and every other entry is as it was.
C14_LifecycleUpsert ==
    [][(nEvents' = nEvents + 1 /\ event'.type \in LifecycleCases(lesson)) =>
           LET id == LedgerIdOf(event'.type, event'.item_id)
               idx == FindIndex(traceSteps, id)
               at == IF idx > 0 THEN idx ELSE Len(traceSteps) + 1
           IN  /\ Len(traceSteps') = (IF idx > 0 THEN Len(traceSteps) ELSE Len(traceSteps) + 1)
               /\ traceSteps'[at].id = id
               /\ traceSteps'[at].status = LifecycleStatus(event'.type)
               /\ \A k \in 1..Len(traceSteps') :
                     k # at => /\ traceSteps'[k] = traceSteps[k]
                               /\ traceSteps'[k].id # id]_vars

\* Lesson 06: the MCP call i1 began and failed, then the call i2 began: two
\* entries, the first with status error, the second in-progress.
C14_Witness ==
    /\ lesson = "lesson06" /\ pc = "streaming" /\ nEvents = 3
    /\ Len(traceSteps) = 3
    /\ traceSteps[2].id = "mcp-call-i1" /\ traceSteps[2].status = "error"
    /\ traceSteps[3].id = "mcp-call-i2" /\ traceSteps[3].status = "in-progress"

\* The event types page l's switch has a case for.
Handled(l) == LifecycleCases(l) \cup {"response.output_text.delta", "response.completed"}

\* C15 (unrecognised events): an event whose type has no case leaves the
\* messages and the ledger unchanged, raises no error and does not end the
\* stream, so that the events after it find the state they would have found
\* without it.
C15_UnrecognisedIgnored ==
    [][(nEvents' = nEvents + 1 /\ event'.type \notin Handled(lesson)) =>
           /\ messages' = messages
           /\ traceSteps' = traceSteps
           /\ caught' = caught /\ mounted' /\ isLoading' = isLoading
           /\ pc' = "streaming"
           /\ deltas' = deltas /\ requests' = requests]_vars

\* Lesson 05 has taken a text fragment and then an MCP event, for which its
\* switch has no case.
C15_Witness ==
    /\ lesson = "lesson05" /\ pc = "streaming" /\ nEvents = 2
    /\ event.type = "response.mcp_call.failed"
    /\ Last(messages).content = "b"
    /\ Len(traceSteps) = 1

\* C16 (completion steps): processing response.completed attaches the final
\* response to the in-progress assistant message, and the ledger then has
\* stream-request, completed, before every other step and stream-complete,
\* completed, as its last step.
C16_CompletionSteps ==
    [][(nEvents' = nEvents + 1 /\ event'.type = "response.completed") =>
           /\ messages' # <<>>
           /\ Last(messages').rawResponse = <<event'.response>>
           /\ traceSteps'[1].id = "stream-request"
           /\ traceSteps'[1].status = "completed"
           /\ Last(traceSteps').id = "stream-complete"
           /\ Last(traceSteps').status = "completed"]_vars

\* The ids of a ledger, in its order.
IdsOf(L) == [k \in 1..Len(L) |-> L[k].id]

HasId(L, id) == \E k \in 1..Len(L) : L[k].id = id

\* C17 (idempotent upsert): pushTrace(s) called again right after
\* pushTrace(s) leaves the ledger as the first call left it, for every ledger
\* the first call was applied to and every step s.
C17_IdempotentUpsert ==
    [][(/\ traceOp.name = "pushTrace"
        /\ traceOp'.name = "pushTrace"
        /\ traceOp'.step = traceOp.step) => traceSteps' = traceSteps]_vars

\* pushTrace was called twice with a step for s2, which a ledger of three
\* entries already held in its middle: the second call found the ledger the
\* first had left and left it the same.
C17_Witness ==
    /\ traceOp.name = "pushTrace"
    /\ traceOp.prev = traceSteps
    /\ Len(traceSteps) = 3
    /\ traceSteps[2] = traceOp.step
    /\ traceOp.step.id = "s2" /\ traceOp.step.status = "error"

\* C18 (order preservation): after pushTrace(s) on a ledger without s.id the
\* ledger is the old one with s after all its steps; on a ledger with s.id it
\* has the same length and the same ids in the same order, s at the index of
\* that id and every other entry as it was.
C18_OrderPreserved ==
    traceOp.name = "pushTrace" =>
        LET L == traceOp.prev
            st == traceOp.step
        IN  IF ~HasId(L, st.id)
            THEN /\ Len(traceSteps) = Len(L) + 1
                 /\ SubSeq(traceSteps, 1, Len(L)) = L
                 /\ traceSteps[Len(L) + 1] = st
            ELSE /\ Len(traceSteps) = Len(L)
                 /\ IdsOf(traceSteps) = IdsOf(L)
                 /\ \A k \in 1..Len(L) :
                       traceSteps[k] = IF L[k].id = st.id THEN st ELSE L[k]

\* pushTrace replaced the first of three entries: s1 went from in-progress to
\* completed and stayed in front of s3 and s2.
C18_Witness ==
    /\ traceOp.name = "pushTrace"
    /\ IdsOf(traceOp.prev) = <<"s1", "s3", "s2">>
    /\ traceOp.prev[1].status = "in-progress"
    /\ traceOp.step.id = "s1" /\ traceOp.step.status = "completed"
    /\ IdsOf(traceSteps) = <<"s1", "s3", "s2">>
    /\ traceSteps[1].status = "completed"

\* C19 (unique ids): after any sequence of pushTrace, trace, callback and
\* clearTrace calls no two entries of the ledger have the same id.
C19_UniqueIds ==
    \A i, j \in 1..Len(traceSteps) : traceSteps[i].id = traceSteps[j].id => i = j

\* After a clearTrace, a callback obtained before it has written its step
\* again, and three ids are in the ledger.
C19_Witness ==
    /\ traceOp.name = "done"
    /\ ~HasId(traceOp.prev, traceOp.step.id)
    /\ Len(traceSteps) = 3
    /\ Cardinality(callbacks) = 3

\* C20 (begin/complete pairing): trace(id, label) leaves one step with that id
\* and status in-progress and returns a callback; a call of the callback,
\* given no id, leaves the step of that id with status completed at the index
\* the id has (at the end when a clearTrace had removed it) and every other
\* entry as it was, whatever was upserted between the two calls.
C20_BeginCompletePairing ==
    traceOp.name \in {"trace", "done"} =>
        LET L == traceOp.prev
            id == traceOp.step.id
            at == IF HasId(L, id) THEN CHOOSE k \in 1..Len(L) : L[k].id = id
                  ELSE Len(L) + 1
        IN  /\ Len(traceSteps) = (IF HasId(L, id) THEN Len(L) ELSE Len(L) + 1)
            /\ traceSteps[at].id = id
            /\ traceSteps[at].status =
                  (IF traceOp.name = "trace" THEN "in-progress" ELSE "completed")
            /\ \A k \in 1..Len(traceSteps) :
                  k # at => traceSteps[k] = L[k] /\ traceSteps[k].id # id
            /\ traceOp.name = "trace" =>
                  \E cb \in callbacks : cb.id = id /\ cb.label = traceOp.step.label
            /\ traceOp.name = "done" =>
                  traceSteps[at].label =
                     (IF traceOp.step.label = Undefined THEN "l1" ELSE traceOp.step.label)

\* trace("s1") came first, s2 and s3 were upserted after it, and the callback
\* of s1, called with its own label, completed the first entry in place.
C20_Witness ==
    /\ traceOp.name = "done"
    /\ traceOp.step.id = "s1" /\ traceOp.step.label = "l2"
    /\ Len(traceOp.prev) = 3
    /\ traceOp.prev[1].id = "s1" /\ traceOp.prev[1].status = "in-progress"
    /\ traceSteps[1] = Step("s1", "l2", "completed", NoData)
    /\ traceSteps[2] = traceOp.prev[2] /\ traceSteps[3] = traceOp.prev[3]

\* C21 (error completion): after the callback trace(id, ...) returned is
\* called with a payload that reports an error, the step of that id has
\* status error.
C21_ErrorCompletion ==
    (traceOp.name = "done" /\ traceOp.step.data.result.error) =>
        \E k \in 1..Len(traceSteps) :
            traceSteps[k].id = traceOp.step.id /\ traceSteps[k].status = "error"

\* A step in which handleSend is entered: isLoading goes from false to true.
TurnBegins == ~isLoading /\ isLoading'

\* C22 (ledger lifetime is one turn): the step that begins a turn leaves in the
\* ledger the turn's request step and nothing else, whatever the ledger held
\* before; no step of an earlier turn is in the ledger once a later turn has
\* begun.
C22_LedgerLifetime ==
    [][TurnBegins => traceSteps' = <<InitialStep(lesson, messages')>>]_vars

\* A second turn of Lesson 03 has begun after a turn that ran tools: the
\* ledger, which held that turn's steps, holds the new request step alone,
\* and its payload counts the three messages of this turn.
C22_Witness ==
    /\ lesson = "lesson03" /\ isLoading /\ pc = "awaitInitial"
    /\ Len(newMessages) = 3
    /\ newMessages[2].role = "assistant" /\ newMessages[2].functionCall
    /\ Len(traceSteps) = 1
    /\ traceSteps[1].id = "initial-request" /\ traceSteps[1].data.count = 3

\* A step in which handleSend runs its first statements: the local
\* newMessages is built anew from the messages and the input.
HandleSendEntered == newMessages' # newMessages /\ newMessages' # <<>>

\* C23 (turn serialisation): while isLoading is true, from the step that
\* begins a turn to the finally block that ends it, no step enters handleSend;
\* a send attempt of the chat input in that time changes nothing.
C23_TurnSerialisation ==
    [][isLoading => ~HandleSendEntered]_vars

\* Lesson 03 waits for the answer to its follow-up request, the conversation
\* is short enough for the user to press send, and pressing it is possible.
C23_Witness ==
    /\ lesson = "lesson03" /\ isLoading /\ pc = "awaitFollowup"
    /\ Len(requests) = 2
    /\ messages = newMessages
    /\ ENABLED UserSendsAgain

\* A request has been sent and its response has not arrived.
AwaitingResponse == pc \in {"awaitInitial", "awaitFollowup"}

\* A step in which the response to the pending request is received and
\* processed without a throw: on the streaming pages the response.completed
\* event, elsewhere the continuation of the awaited create().
ResponseProcessed ==
    IF lesson \in Streaming
    THEN pc = "streaming" /\ nEvents' = nEvents + 1 /\ event'.type = "response.completed"
    ELSE /\ AwaitingResponse /\ caught' = NoError
         /\ pc' # pc \/ requests' # requests

\* The ledger after the step has a step of this id with this status.
StatusAfter(id, status) ==
    \E i \in 1..Len(traceSteps') : traceSteps'[i].id = id /\ traceSteps'[i].status = status

\* C24 (per-request trace pairing): while a request is awaited the ledger has
\* a step for it with status in-progress, and the step that receives and
\* processes its response leaves that same step with status completed; for
\* the initial request and every follow-up, on every page.
C24_RequestTracePairing ==
    [][/\ AwaitingResponse =>
             HasStep(PendingRequestId) /\ StatusOf(PendingRequestId) = "in-progress"
       /\ ResponseProcessed => StatusAfter(PendingRequestId, "completed")]_vars

\* The executions of this turn that are the last with their call id and whose
\* id is not that of the call being awaited.
Settled ==
    {k \in 1..Len(functionExecutions) :
        /\ \A j \in (k + 1)..Len(functionExecutions) :
              functionExecutions[j].call_id # functionExecutions[k].call_id
        /\ pc = "awaitTool" => AwaitedCall.call_id # functionExecutions[k].call_id}

\* What calculate_tip returns for a bill of 50 and no tip_percentage.
TipOfFifty ==
    "\"original_bill\":50,\"tip_percentage\":20,\"tip_amount\":10,\"total_amount\":60"

\* C25 (tool execution trace): while a handler is awaited the step exec-c of
\* its call is in the ledger with status in-progress; once the handler of a
\* call with id c has returned, exec-c is completed and carries the handler's
\* result, and the output sent back for c is that result as JSON. For
\* calculate_tip with bill_amount 50 and no tip_percentage the result has
\* tip_percentage 20, tip_amount 10 and total_amount 60.
C25_ToolExecutionTrace ==
    /\ pc = "awaitTool" =>
          HasStep(ExecId(AwaitedCall)) /\ StatusOf(ExecId(AwaitedCall)) = "in-progress"
    /\ \A k \in Settled :
          LET fx == functionExecutions[k]
              id == "exec-" \o fx.call_id
          IN  /\ HasStep(id)
              /\ StatusOf(id) = "completed"
              /\ traceSteps[FindIndex(traceSteps, id)].data.result = fx.result
              /\ \E i \in 1..Len(inputList) :
                    inputList[i] = FunctionCallOutput(fx.call_id, JSONStringify(fx.result))
    /\ lesson = "lesson01" =>
          \A k \in 1..Len(functionExecutions) :
              LET tc == FilterCalls(response.output)[k]
              IN  (tc.name = "calculate_tip" /\ tc.arguments = ArgTip) =>
                     /\ functionExecutions[k].result.fields = TipOfFifty
                     /\ \E i \in 1..Len(inputList) :
                           inputList[i] = FunctionCallOutput(tc.call_id, "{" \o TipOfFifty \o "}")

\* Lesson 01 ran calculate_tip for call c1 with a bill of 50: exec-c1 is
\* completed with the tip of 10 and the total of 60, and the second request
\* carries that result as the output of c1.
C25_Witness ==
    /\ lesson = "lesson01" /\ pc = "awaitFollowup"
    /\ Len(functionExecutions) = 1
    /\ functionExecutions[1].call_id = "c1"
    /\ functionExecutions[1].result.fields = TipOfFifty
    /\ StatusOf("exec-c1") = "completed"
    /\ traceSteps[FindIndex(traceSteps, "exec-c1")].data.result.fields = TipOfFifty
    /\ Last(Last(requests)) = FunctionCallOutput("c1", "{" \o TipOfFifty \o "}")

\* In the round being worked on: the calls whose handler has been invoked and
\* the calls whose handler has returned.
Begun ==
    CASE pc = "awaitTool" -> callIdx
      [] pc = "awaitFollowup" -> Len(RoundCalls)
      [] OTHER -> 0
Returned == IF pc = "awaitTool" THEN callIdx - 1 ELSE Begun

\* The index in the ledger of the step exec-<id>, 0 when there is none.
ExecIndex(id) == FindIndex(traceSteps, "exec-" \o id)

\* The input list ends with the response's output followed by the outputs of
\* the calls that have returned, in the order of the calls, and nothing else:
\* the k+1-th handler is invoked with the k-th result already appended.
ResultsAppendedInOrder ==
    LET r == Returned
        n == Len(inputList)
    IN  /\ n > r
        /\ inputList[n - r] = Last(response.output)
        /\ \A j \in 1..r :
              /\ inputList[n - r + j].type = "function_call_output"
              /\ inputList[n - r + j].call_id = RoundCalls[j].call_id

\* C26 as claimed (sequential execution in request order): within a round the
\* handler of call k+1 is invoked only with the result of call k appended to
\* the input list, and the exec-<call_id> steps of the round's calls are in
\* the ledger in the order of the calls in the response.
C26_SequentialInResponseOrder ==
    pc \in {"awaitTool", "awaitFollowup"} =>
        /\ ResultsAppendedInOrder
        /\ \A i, j \in 1..Begun :
              (i < j /\ RoundCalls[i].call_id # RoundCalls[j].call_id) =>
                  /\ ExecIndex(RoundCalls[i].call_id) > 0
                  /\ ExecIndex(RoundCalls[i].call_id) < ExecIndex(RoundCalls[j].call_id)

\* The call ids of the turn's invoked handlers, in the order of invocation.
InvokedIds ==
    [k \in 1..Len(functionExecutions) |-> functionExecutions[k].call_id]
    \o (IF pc = "awaitTool" THEN <<AwaitedCall.call_id>> ELSE <<>>)

FirstUse(k) == \A m \in 1..(k - 1) : InvokedIds[m] # InvokedIds[k]

\* C26 as the code has it: results are appended as claimed; the exec steps
\* are in the ledger in the order in which their call ids were first used in
\* the turn, which is the order of the calls in the response where no call id
\* is used twice in the turn. A call whose id was used before is reported in
\* the step of the earlier call, at that step's place.
C26_SequentialInFirstUseOrder ==
    pc \in {"awaitTool", "awaitFollowup"} =>
        /\ ResultsAppendedInOrder
        /\ \A a, b \in 1..Len(InvokedIds) :
              (a < b /\ FirstUse(a) /\ FirstUse(b)) =>
                  /\ ExecIndex(InvokedIds[a]) > 0
                  /\ ExecIndex(InvokedIds[a]) < ExecIndex(InvokedIds[b])
        /\ \A i, j \in 1..Begun :
              (i < j /\ IdsUnique(inputList)) =>
                  ExecIndex(RoundCalls[i].call_id) < ExecIndex(RoundCalls[j].call_id)

\* Lesson 03 awaits the handler of the second call of a response that asked
\* for c2 and then c1: the output of c2 is the last item of the input list,
\* and exec-c2 stands before exec-c1 in the ledger.
C26_Witness ==
    /\ pc = "awaitTool" /\ callIdx = 2
    /\ RoundCalls[1].call_id = "c2" /\ RoundCalls[2].call_id = "c1"
    /\ Last(inputList).type = "function_call_output" /\ Last(inputList).call_id = "c2"
    /\ StatusOf("exec-c2") = "completed" /\ StatusOf("exec-c1") = "in-progress"
    /\ ExecIndex("c2") < ExecIndex("c1")

\* The step receives a response: the one attached to the final message when
\* the turn ends with it, else the one the loop goes on with.
ResponseArrives == AwaitingResponse /\ caught' = NoError /\ (pc' # pc \/ requests' # requests)
ArrivedResponse == IF pc' = "idle" THEN Last(messages').rawResponse[1] ELSE response'

\* The turn ends with the final assistant message.
TurnCompletes == isLoading /\ ~isLoading' /\ caught' = NoError

\* C27 (loop termination depends only on the service): in Lesson 03 the turn
\* ends with a final assistant message in exactly the steps that receive a
\* response without function calls; a response with function calls, in
\* whatever round, is followed by its handlers and another request (or by an
\* error), so the requests of a turn are as many as the service chooses.
C27_TerminationByService ==
    [][/\ TurnCompletes =>
             /\ ResponseArrives
             /\ FilterCalls(ArrivedResponse.output) = <<>>
             /\ Last(messages') = AssistantMessage(ArrivedResponse, Len(requests) > 1)
       /\ (ResponseArrives /\ FilterCalls(ArrivedResponse.output) # <<>>) =>
             /\ isLoading'
             /\ pc' \in {"awaitTool", "awaitFollowup"}
             /\ roundNumber' = roundNumber + 1
       /\ (ResponseArrives /\ pc' = "idle") => FilterCalls(ArrivedResponse.output) = <<>>]_vars

\* The service asked for one call in each of three responses: the turn is in
\* its third round and the fourth request is out, as many as the service's
\* budget in this specification allows.
C27_Witness ==
    /\ pc = "awaitFollowup" /\ isLoading
    /\ roundNumber = MaxCalls + 1
    /\ Len(requests) = MaxCalls + 2
    /\ Len(functionExecutions) = MaxCalls + 1

\* s is a proper prefix of t.
IsPrefix(s, t) == Len(s) < Len(t) /\ SubSeq(t, 1, Len(s)) = s

\* C28 (append-only conversation state within a turn): of two consecutive
\* requests of a turn the input of the earlier is a prefix of the input of the
\* later, item for item; and so of any two requests of the turn.
C28_AppendOnly ==
    /\ \A i \in 1..(Len(requests) - 1) : IsPrefix(requests[i], requests[i + 1])
    /\ \A i, j \in 1..Len(requests) :
          i < j => \A k \in 1..Len(requests[i]) : requests[j][k] = requests[i][k]

\* Lesson 03 has sent three requests in a turn: the user's message, then that
\* with the first round's call and output, then that with the second round's.
C28_Witness ==
    /\ lesson = "lesson03" /\ pc = "awaitFollowup"
    /\ Len(requests) = 3
    /\ requests[1] = ToInput(newMessages)
    /\ Len(requests[2]) = 3 /\ requests[2][2].type = "function_call"
    /\ requests[2][3].type = "function_call_output"
    /\ Len(requests[3]) = 5 /\ requests[3][5].type = "function_call_output"

\* The elements of a sequence.
Range(s) == {s[k] : k \in 1..Len(s)}

\* The ids of a sequence of steps, each once, in the order of first occurrence.
RECURSIVE FirstIds(_, _)
FirstIds(steps, seen) ==
    IF steps = <<>> THEN <<>>
    ELSE IF Head(steps).id \in seen THEN FirstIds(Tail(steps), seen)
    ELSE <<Head(steps).id>> \o FirstIds(Tail(steps), seen \cup {Head(steps).id})

\* The last step of a batch with this id.
LastWith(steps, id) ==
    steps[CHOOSE k \in 1..Len(steps) :
             steps[k].id = id /\ \A m \in (k + 1)..Len(steps) : steps[m].id # id]

\* C29 (atomic ledger writes without lost updates): after pushTrace calls
\* issued back to back between two renders, the ledger rendered next holds,
\* for every id written, the step of the last call with that id, whole; every
\* other entry as it was; the old ids in their order and then the new ids in
\* the order of their first call; and nothing that is neither a whole old
\* entry nor a whole step of a call. This is the ledger that applying the
\* upserts one by one in call order gives.
C29_NoLostUpdates ==
    traceOp.name = "batch" =>
        LET L == traceOp.prev
            Q == traceOp.steps
            written == {Q[k].id : k \in 1..Len(Q)}
        IN  /\ Range(traceSteps) \subseteq Range(L) \cup Range(Q)
            /\ IdsOf(traceSteps) = IdsOf(L) \o FirstIds(Q, Range(IdsOf(L)))
            /\ \A k \in 1..Len(traceSteps) :
                  traceSteps[k] = IF traceSteps[k].id \in written
                                  THEN LastWith(Q, traceSteps[k].id)
                                  ELSE L[k]

\* One handler began s2, completed it and began s1 on a ledger that held s3
\* and s1 completed: the next render shows s3 untouched, s1 in progress again
\* in its place and s2 completed behind them.
C29_Witness ==
    /\ traceOp.name = "batch"
    /\ IdsOf(traceOp.prev) = <<"s3", "s1">>
    /\ traceOp.prev[2].status = "completed"
    /\ traceOp.steps = <<Step("s2", "l1", "in-progress", NoData),
                         Step("s2", "l1", "completed", NoData),
                         Step("s1", "l1", "in-progress", NoData)>>
    /\ traceSteps = <<traceOp.prev[1], Step("s1", "l1", "in-progress", NoData),
                      Step("s2", "l1", "completed", NoData)>>

\* C30 (clear is effective under interleaving): once handleClear has left the
\* message list and the ledger empty, both stay empty in every step that does
\* not begin a turn, also when the clear came while a turn was in flight: no
\* later write of that turn brings messages back or adds steps.
C30_ClearIsEffective ==
    [][(messages = <<>> /\ traceSteps = <<>> /\ ~TurnBegins) =>
          (messages' = <<>> /\ traceSteps' = <<>>)]_vars

FinalText(resp) == IF resp.output_text = "" THEN "No response" ELSE resp.output_text

\* The second response of a Lesson 01/02 turn arrives.
SecondArrives ==
    /\ lesson \in SingleRound /\ pc = "awaitFollowup"
    /\ caught' = NoError
    /\ vars' # vars

\* The ledger entries that report an execution.
ExecSteps(L) == SelectSeq(L, LAMBDA st : st.id \notin {"initial-request", "second-request"})

\* C32: a Lesson 01 or Lesson 02 turn sends at most two requests; when the
\* second response arrives the turn ends there, whatever the response holds:
\* no request follows it, no execution step is begun or rewritten for its
\* function calls, and the final message is the prior messages followed by an
\* assistant message with the second response's text, or "No response".
C32_TwoRequestBound ==
    /\ [](lesson \in SingleRound => Len(requests) <= 2)
    /\ [][SecondArrives =>
            /\ pc' = "idle" /\ ~isLoading'
            /\ requests' = requests
            /\ ExecSteps(traceSteps') = ExecSteps(traceSteps)
            /\ Len(messages') = Len(newMessages) + 1
            /\ SubSeq(messages', 1, Len(newMessages)) = newMessages
            /\ Last(messages').role = "assistant"
            /\ Last(messages').content = FinalText(Last(messages').rawResponse[1])
            /\ Last(messages').rawResponse[1] \in Responses(lesson, MaxOutput)]_vars

\* A turn of Lesson 01 has ended on a second response that holds a function
\* call: two requests were sent, the one call of the first response ran, and
\* the message shows the placeholder.
C32_Witness ==
    /\ lesson = "lesson01" /\ pc = "idle" /\ caught = NoError
    /\ Len(requests) = 2
    /\ Len(messages) = 2
    /\ FilterCalls(Last(messages).rawResponse[1].output) # <<>>
    /\ Last(messages).content = "No response"
    /\ Len(ExecSteps(traceSteps)) = 1


\* ------------------------------------------------------------------ C33
\* The function calls the service made in round k: the function_call items
\* that request k + 1 has beyond request k.
CallsOfRound(k) ==
    FilterCalls(SubSeq(requests[k + 1], Len(requests[k]) + 1, Len(requests[k + 1])))

\* The ledger ids of round k, as the claim lists them.
RoundIds(k) ==
    <<"round-" \o ToString(k) \o "-calls">>
    \o [i \in 1..Len(CallsOfRound(k)) |-> "exec-" \o CallsOfRound(k)[i].call_id]
    \o <<"round-" \o ToString(k) \o "-followup">>

RECURSIVE RoundsIds(_)
RoundsIds(n) == IF n = 0 THEN <<>> ELSE RoundsIds(n - 1) \o RoundIds(n)

\* The ledger ids of a successful turn of n rounds, as the claim lists them.
ExpectedIds(n) ==
    <<"initial-request">> \o RoundsIds(n) \o <<"round-" \o ToString(n) \o "-done">>

\* s without the repetitions of an element: each element at its first place.
RECURSIVE FirstOccurrences(_)
FirstOccurrences(s) ==
    IF s = <<>> THEN <<>>
    ELSE LET front == SubSeq(s, 1, Len(s) - 1)
             rest == FirstOccurrences(front)
         IN  IF \E i \in 1..Len(front) : front[i] = Last(s) THEN rest ELSE Append(rest, Last(s))

\* A Lesson 03 turn ends with a final answer.
RoundsTurnCompletes == lesson = "lesson03" /\ TurnCompletes

\* Original statement of C33: at the end of a successful turn with N rounds
\* the service has received N + 1 requests and the ledger lists
\* initial-request, each round's calls step, exec steps and follow-up step,
\* and round-N-done, whether or not the call ids of the turn are distinct.
C33_RoundAccounting ==
    [][RoundsTurnCompletes =>
          /\ Len(requests) = roundNumber + 1
          /\ IdsOf(traceSteps') = ExpectedIds(roundNumber)]_vars

\* C33, amended: at the end of a successful Lesson 03 turn with N rounds the
\* service has received N + 1 requests, and the ledger ids are the listed
\* sequence with every id at the place of its first occurrence; it is the listed
\* sequence itself, without a repeated id, when the call ids of the turn are
\* distinct.
C33_RoundAccountingFirstUse ==
    [][RoundsTurnCompletes =>
          /\ Len(requests) = roundNumber + 1
          /\ IdsOf(traceSteps') = FirstOccurrences(ExpectedIds(roundNumber))
          /\ IdsUnique(Last(requests)) =>
                /\ IdsOf(traceSteps') = ExpectedIds(roundNumber)
                /\ FirstOccurrences(ExpectedIds(roundNumber)) = ExpectedIds(roundNumber)]_vars

\* A turn of two rounds with one call each, c1 and then c2, has ended with an
\* answer: three requests and a ledger of eight steps.
C33_Witness ==
    /\ lesson = "lesson03" /\ pc = "idle" /\ caught = NoError
    /\ Len(requests) = 3
    /\ IdsUnique(Last(requests))
    /\ IdsOf(traceSteps) = <<"initial-request", "round-1-calls", "exec-c1", "round-1-followup",
                             "round-2-calls", "exec-c2", "round-2-followup", "round-2-done">>


\* ------------------------------------------------------------------ C34
\* The status of the step `id` in the ledger L, "absent" when L has none.
StatusIn(L, id) == IF HasId(L, id) THEN L[FindIndex(L, id)].status ELSE "absent"

\* A step of a turn of a page that does not stream.
WithinTurn == isLoading /\ lesson \notin Streaming

\* The ids of the steps of the ledger before or after the step.
StepIds == Range(IdsOf(traceSteps)) \cup Range(IdsOf(traceSteps'))

\* Variant of the statement without its proviso on the call ids.
C34_MonotoneWhateverIds ==
    [][WithinTurn =>
          \A id \in StepIds :
              StatusIn(traceSteps, id) = "completed" => StatusIn(traceSteps', id) = "completed"]_vars

\* C34: within a turn of a page that does not stream, and as long as the
\* function calls of the turn have distinct call ids, a ledger step is never
\* removed, an in-progress step stays in-progress or becomes completed, and a
\* completed step stays completed.
C34_StatusMonotone ==
    [][WithinTurn /\ IdsUnique(inputList') =>
          \A id \in StepIds :
              /\ StatusIn(traceSteps', id) # "absent"
              /\ StatusIn(traceSteps', id) \in {"in-progress", "completed"}
              /\ StatusIn(traceSteps, id) = "completed" => StatusIn(traceSteps', id) = "completed"]_vars

\* Lesson 03 is in its second round with distinct call ids: the call of round 1
\* is completed and the call of round 2 is running.
C34_Witness ==
    /\ lesson = "lesson03" /\ pc = "awaitTool" /\ roundNumber = 2
    /\ IdsUnique(inputList)
    /\ StatusIn(traceSteps, "exec-c1") = "completed"
    /\ StatusIn(traceSteps, "round-1-followup") = "completed"
    /\ StatusIn(traceSteps, "exec-c2") = "in-progress"


\* ------------------------------------------------------------------ C35
\* The step is a call that goes through pushTrace(s): pushTrace itself,
\* trace, or the callback trace returned.
Upserts == traceOp'.name \in {"pushTrace", "trace", "done"}

\* C35 (upsert frame): a call that goes through pushTrace(s) leaves every
\* entry whose id is not s.id as it was and where it was, and makes the ledger
\* one longer when s.id was absent and no longer when it was present; the only
\* step after which the ledger is shorter is clearTrace.
C35_UpsertFrame ==
    [][/\ Upserts =>
            LET id == traceOp'.step.id
            IN  /\ \A k \in 1..Len(traceSteps) :
                       traceSteps[k].id # id =>
                           /\ k <= Len(traceSteps')
                           /\ traceSteps'[k] = traceSteps[k]
                /\ Len(traceSteps') = Len(traceSteps) + (IF HasId(traceSteps, id) THEN 0 ELSE 1)
       /\ Len(traceSteps') < Len(traceSteps) => traceOp'.name = "clearTrace"]_vars

\* On a ledger of s1 and s2 the new id s3 was pushed: s1 and s2 are as and
\* where they were, and the ledger has three entries.
C35_Witness ==
    /\ traceOp.name = "pushTrace"
    /\ traceOp.step.id = "s3"
    /\ IdsOf(traceOp.prev) = <<"s1", "s2">>
    /\ Len(traceSteps) = 3
    /\ SubSeq(traceSteps, 1, 2) = traceOp.prev


\* ------------------------------------------------------------------ C36
\* The payload a trace call recorded at begin.
BeginPayload == Data("begin", 1, NoResult)

\* C36 (completion replaces): after the callback of trace(id, label, data) is
\* called, the step of that id is completed, has the label the callback was
\* given, or the label of the trace call when it was given none (an empty label
\* is a label), and has the payload the callback was given and nothing else;
\* called without a payload, it leaves no step of that id with the payload
\* recorded at begin.
C36_CompletionReplaces ==
    traceOp.name = "done" =>
        LET id == traceOp.step.id
            k == FindIndex(traceSteps, id)
        IN  /\ k > 0
            /\ traceSteps[k].status = "completed"
            /\ traceSteps[k].label =
                  (IF traceOp.step.label = Undefined THEN traceOp.label ELSE traceOp.step.label)
            /\ traceSteps[k].data = traceOp.step.data
            /\ traceOp.step.data = NoData =>
                  \A j \in 1..Len(traceSteps) :
                      traceSteps[j].id = id => traceSteps[j].data # BeginPayload

\* trace("s1", "l3", payload) began a step, and its callback was called with
\* neither a label nor a payload: the step is completed under the label l3 and
\* the payload is gone.
C36_Witness ==
    /\ traceOp.name = "done"
    /\ traceOp.step.id = "s1"
    /\ traceOp.step.label = Undefined /\ traceOp.step.data = NoData
    /\ traceOp.label = "l3"
    /\ HasId(traceOp.prev, "s1")
    /\ traceOp.prev[FindIndex(traceOp.prev, "s1")] = Step("s1", "l3", "in-progress", BeginPayload)
    /\ traceSteps[FindIndex(traceSteps, "s1")] = Step("s1", "l3", "completed", NoData)


\* ------------------------------------------------------------------ C37
\* The stream delivers a text delta or the completed event.
TextEventArrives ==
    /\ pc = "streaming"
    /\ nEvents' = nEvents + 1
    /\ event'.type \in {"response.output_text.delta", "response.completed"}

\* C37 (streaming frame): with no clear during the stream, a text delta or a
\* completed event leaves the number of messages and every message but the
\* last as they were; the last message is the assistant message appended when
\* the stream opened, after the messages the turn was sent with.
C37_StreamingFrame ==
    [][TextEventArrives =>
          /\ Len(messages') = Len(messages)
          /\ Len(messages) = Len(newMessages) + 1
          /\ SubSeq(messages, 1, Len(newMessages)) = newMessages
          /\ \A k \in 1..(Len(messages) - 1) : messages'[k] = messages[k]
          /\ Last(messages).role = "assistant"
          /\ Last(messages').role = "assistant"]_vars

\* A stream has delivered a delta and then the completed event: the user's
\* message is as it was sent and the second message holds the answer.
C37_Witness ==
    /\ lesson \in Streaming /\ pc = "streaming"
    /\ deltas # <<>>
    /\ event.type = "response.completed"
    /\ Len(messages) = 2
    /\ messages[1] = UserMessage("hi")
    /\ messages[2].role = "assistant" /\ messages[2].content # ""
    /\ messages[2].rawResponse # <<>>


\* ------------------------------------------------------------------ C38
\* A turn ends in the catch block.
TurnFails == isLoading /\ ~isLoading' /\ caught' # NoError

\* The last turn ended in an error and its messages are on the page.
AfterFailedTurn ==
    /\ pc = "idle" /\ caught # NoError
    /\ Len(messages) >= 2
    /\ Last(messages) = ErrorMessage(caught)

\* A turn begins on the messages of a failed turn.
NextTurnBegins == AfterFailedTurn /\ TurnBegins

=============================================================================
